---- MODULE Spec2Model ----
(***************************************************************************)
(* The warehouse-management frontend: three React page components behind   *)
(* a router (UploadPage, DashboardPage, AnalyticsPage), each holding its   *)
(* own useState fields and talking to the backend through one axios        *)
(* instance.  A state of the model is the useState fields of the pages,    *)
(* the asynchronous calls that are awaiting a response or a timer, and a   *)
(* count of the requests handed to axios per endpoint.  The backend is     *)
(* not part of the repository: each awaited request settles with any       *)
(* outcome axios can deliver.                                               *)
(***************************************************************************)
EXTENDS Integers, Sequences, FiniteSets, TLC

VARIABLES
    page,          \* the route whose element is mounted
    mappingFile,   \* UploadPage useState
    salesFile,     \* UploadPage useState
    processing,    \* UploadPage useState
    results,       \* UploadPage useState
    error,         \* UploadPage useState
    run,           \* the processMapping call started last: captured files, requests, responses
    exports,       \* the exportResults calls awaiting their response (formats, in call order)
    downloads,     \* names of the files exportResults handed to the browser
    analytics,     \* DashboardPage useState
    dashLoading,   \* DashboardPage useState (loading)
    dashError,     \* DashboardPage useState (error)
    query,         \* AnalyticsPage useState
    conversation,  \* AnalyticsPage useState
    loading,       \* AnalyticsPage useState
    insights,      \* AnalyticsPage useState
    dataPreview,   \* AnalyticsPage useState
    pending,       \* the sendQuery call awaiting its timer, with the query it captured
    effect,        \* the mount effect of the page: pending, awaiting its response, done
    net,           \* requests handed to axios so far, per endpoint
    clicks         \* user actions so far, per kind

uploadVars == <<mappingFile, salesFile, processing, results, error, run, exports, downloads>>

dashVars == <<analytics, dashLoading, dashError>>

chatVars == <<query, conversation, loading, insights, dataPreview, pending>>

vars == <<page, uploadVars, dashVars, chatVars, effect, net, clicks>>

(***************************************************************************)
(* Bounds of the model.                                                    *)
(***************************************************************************)
MaxRuns == 2

MaxExports == 2

MaxQueries == 2

(***************************************************************************)
(* JavaScript values.                                                       *)
(***************************************************************************)
Null == "null"

Undefined == "undefined"

\* !v for the string-valued fields of the model (file slots, error fields).
Falsy(v) == v \in {Null, Undefined, ""}

\* a || b
OrElse(a, b) == IF Falsy(a) THEN b ELSE a

(***************************************************************************)
(* The routes of App and the endpoints the pages call.                     *)
(***************************************************************************)
Pages == {"/", "/dashboard", "/analytics"}

EpMapping == "/api/upload/mapping"

EpSales == "/api/upload/sales"

EpProcess == "/api/process"

EpExport == "/api/export"

EpAnalytics == "/api/analytics"

EpPreview == "/api/data/preview"

Endpoints == {EpMapping, EpSales, EpProcess, EpExport, EpAnalytics, EpPreview}

\* UploadUrl with the two endpoints exchanged.
UploadUrlSwapped(endpoint) ==
    "/api/upload/" \o (IF endpoint = "mapping" THEN "sales" ELSE "mapping")

\* `/api/upload/${endpoint}`
UploadUrl(endpoint) == "/api/upload/" \o endpoint

(***************************************************************************)
(* Files the user can drop, and the accept filters of the two dropzones.   *)
(***************************************************************************)
Files == {"skus.csv", "skus.xlsx", "orders.json"}

FileExt(f) ==
    CASE f = "skus.csv" -> ".csv"
      [] f = "skus.xlsx" -> ".xlsx"
      [] f = "orders.json" -> ".json"

MappingAccept == {".csv", ".xlsx", ".xls"}

SalesAccept == {".csv", ".xlsx", ".xls", ".json"}

\* react-dropzone hands onDrop the files that pass the accept filter.
AcceptedFiles(accept, f) == IF FileExt(f) \in accept THEN <<f>> ELSE <<>>

\* acceptedFiles[0]
First(acceptedFiles) == IF Len(acceptedFiles) > 0 THEN acceptedFiles[1] ELSE Undefined

(***************************************************************************)
(* What the backend can answer.                                            *)
(***************************************************************************)
Statuses == {404, 500}

BackendErrors == {Undefined, "", "Invalid file format"}

NullStats == [null |-> TRUE]

\* mapping_rate is held in hundredths of a percent (8525 is 85.25).
StatsValues ==
    { [total_records |-> 48, mapped_records |-> 48, mapping_rate |-> 10000, unmapped_count |-> 0],
      [total_records |-> 400, mapped_records |-> 341, mapping_rate |-> 8525, unmapped_count |-> 59],
      [total_records |-> 7] }

\* An error object as the catch blocks read it: error.response (status and
\* data, data possibly null), error.request, error.message.
NoResponse == [present |-> FALSE, status |-> 0, dataNull |-> TRUE, error |-> Undefined]

HttpError(status, dataNull, err) ==
    [response |-> [present |-> TRUE, status |-> status, dataNull |-> dataNull, error |-> err],
     request |-> TRUE,
     message |-> "Request failed with status code " \o ToString(status)]

NetworkError == [response |-> NoResponse, request |-> TRUE, message |-> "Network Error"]

\* new Error(message), and the TypeError of a property read on null.
PlainError(message) == [response |-> NoResponse, request |-> FALSE, message |-> message]

\* The rejections of an axios call.
AxiosErrors ==
    { HttpError(s, FALSE, e) : s \in Statuses, e \in BackendErrors }
    \cup { HttpError(s, TRUE, Undefined) : s \in Statuses }
    \cup { NetworkError }

\* The fulfilments of POST /api/process: response.data (possibly null) and its stats.
ProcessResponses ==
    { [dataNull |-> FALSE, stats |-> s] : s \in StatsValues \cup {NullStats} }
    \cup { [dataNull |-> TRUE, stats |-> NullStats] }

(***************************************************************************)
(* UploadPage.                                                              *)
(***************************************************************************)
MsgBothFiles == "Please upload both mapping and sales files"

MsgUploadFailed == "Upload failed"

MsgNetwork == "Network error: Unable to connect to server. Please check if the backend is running."

MsgInvalidFormat == "Invalid response format from server"

MsgUnexpected == "An unexpected error occurred"

MsgExportFailed == "Export failed"

MsgStatsOfNull == "Cannot read properties of null (reading 'stats')"

\* prev is the value of results when the run started.
NoRun == [mf |-> Null, sf |-> Null, reqs |-> <<>>, resps |-> <<>>, prev |-> NullStats]

\* A request of a run: the url posted to and the file in its form data.
Request(url, file) == [url |-> url, file |-> file]

\* The run awaits the response of its last request.
InFlight(r) == Len(r.reqs) > Len(r.resps)

\* uploadFile's catch: the error it throws in place of the axios rejection.
\* error.response?.data?.error tolerates a missing response and null data.
UploadError(e) == PlainError(OrElse(e.response.error, MsgUploadFailed))

\* processMapping's catch reads error.response.data.error: with a response
\* whose data is null this read throws and setError is never reached.
CatchThrows(e) == e.response.present /\ e.response.dataNull

\* CatchMessage without the fallbacks after ||.
CatchMessageNoFallback(e) ==
    IF e.response.present
    THEN e.response.error
    ELSE IF e.request
    THEN MsgNetwork
    ELSE e.message

\* The string processMapping's catch hands to setError.
CatchMessage(e) ==
    IF e.response.present
    THEN OrElse(e.response.error, "Server error: " \o ToString(e.response.status))
    ELSE IF e.request
    THEN MsgNetwork
    ELSE OrElse(e.message, MsgUnexpected)

\* error after processMapping's catch block ran on e (finally follows).
AfterCatch(e) == IF CatchThrows(e) THEN error ELSE CatchMessage(e)

\* 2^n
RECURSIVE Pow2(_)
Pow2(n) == IF n = 0 THEN 1 ELSE 2 * Pow2(n - 1)

\* 2^n modulo 100
RECURSIVE Pow2Mod100(_)
Pow2Mod100(n) == IF n = 0 THEN 1 ELSE (2 * Pow2Mod100(n - 1)) % 100

\* The binary exponent e of the number hundredths/100 (hundredths > 0):
\* 2^e <= hundredths/100 < 2^(e+1).
BinaryExponent(hundredths) ==
    CHOOSE e \in -7..20 :
        IF e >= 0
        THEN Pow2(e) * 100 <= hundredths /\ hundredths < Pow2(e + 1) * 100
        ELSE 100 <= hundredths * Pow2(-e) /\ hundredths * Pow2(-e) < 200

\* How the double nearest to hundredths/100 lies to that decimal: with a
\* 53-bit significand it is m / 2^k for k = 52 - e and m the integer nearest
\* to hundredths * 2^k / 100, so the remainder of hundredths * 2^k by 100
\* tells whether m was rounded down (double below), up (above) or not at all.
DoubleVsDecimal(hundredths) ==
    LET k == 52 - BinaryExponent(hundredths)
        r == ((hundredths % 100) * Pow2Mod100(k)) % 100
    IN IF r = 0 THEN "exact" ELSE IF r < 50 THEN "below" ELSE "above"

\* Number.prototype.toFixed(1) of the double nearest to hundredths/100
\* (hundredths >= 0): the tenth nearest to the double, the larger one on a
\* tie.  Only a decimal ending in 5 is near enough to the middle of two
\* tenths for the double's error to decide.
ToFixed1(hundredths) ==
    LET down == hundredths \div 10
        tenths == IF hundredths % 10 < 5 THEN down
                  ELSE IF hundredths % 10 > 5 THEN down + 1
                  ELSE IF DoubleVsDecimal(hundredths) = "below" THEN down
                  ELSE down + 1
    IN ToString(tenths \div 10) \o "." \o ToString(tenths % 10)

\* results.mapping_rate.toFixed(1) throws a TypeError on stats without a
\* mapping_rate.
PanelThrows(r) == r # NullStats /\ "mapping_rate" \notin DOMAIN r

\* The results panel: the counters as displayed; nothing of the page renders
\* when toFixed throws.
ResultsPanel(r) ==
    IF r = NullStats
    THEN [shown |-> FALSE]
    ELSE IF PanelThrows(r)
    THEN [shown |-> FALSE, threw |-> "TypeError"]
    ELSE [shown |-> TRUE,
          total |-> r.total_records,
          mapped |-> r.mapped_records,
          rate |-> ToFixed1(r.mapping_rate) \o "%",
          unmappedWarning |-> IF r.unmapped_count > 0 THEN r.unmapped_count ELSE 0]

\* The page is on screen.  A render that throws returns no element and,
\* App having no error boundary, React removes the page: its dropzones and
\* buttons are gone and a later setState of a pending call does nothing.
UploadPageRenders == ~PanelThrows(results)

\* ProcessDisabled without the processing test.
ProcessDisabledIgnoresProcessing == Falsy(mappingFile) \/ Falsy(salesFile)

\* disabled={!mappingFile || !salesFile || processing}
ProcessDisabled == Falsy(mappingFile) \/ Falsy(salesFile) \/ processing

\* if (!mappingFile || !salesFile)
FileMissing == Falsy(mappingFile) \/ Falsy(salesFile)

onMappingDrop(f) ==
    /\ page = "/"
    /\ UploadPageRenders
    /\ mappingFile' = First(AcceptedFiles(MappingAccept, f))
    /\ error' = Null
    /\ UNCHANGED <<page, dashVars, chatVars, effect, salesFile, processing, results, run, exports, downloads, net, clicks>>

onSalesDrop(f) ==
    /\ page = "/"
    /\ UploadPageRenders
    /\ salesFile' = First(AcceptedFiles(SalesAccept, f))
    /\ error' = Null
    /\ UNCHANGED <<page, dashVars, chatVars, effect, mappingFile, processing, results, run, exports, downloads, net, clicks>>

\* The request a processMapping call issues first: the mapping file it
\* captured, to /api/upload/mapping.
FirstRequest(mf) == Request(UploadUrl("mapping"), mf)

\* RunFiles that reads the file slots as they are now.
RunFilesLive(r) == [mf |-> mappingFile, sf |-> salesFile]

\* The files run r reads when it builds a request: the ones its call captured.
RunFiles(r) == [mf |-> r.mf, sf |-> r.sf]

\* NextRequest with the sales upload left out.
NextRequestSkipsSales(r) == Request(EpProcess, Null)

\* The request run r issues after its last one succeeded: the sales file
\* the call captured, then the process trigger, which carries no file.
NextRequest(r) ==
    IF Len(r.reqs) = 1
    THEN Request(UploadUrl("sales"), RunFiles(r).sf)
    ELSE Request(EpProcess, Null)

\* processMapping past its guard, up to its first await.
StartRun ==
    /\ processing' = TRUE
    /\ error' = Null
    /\ run' = [mf |-> mappingFile, sf |-> salesFile,
               reqs |-> <<FirstRequest(mappingFile)>>, resps |-> <<>>,
               prev |-> results]
    /\ net' = [net EXCEPT ![FirstRequest(mappingFile).url] = @ + 1]
    /\ UNCHANGED results

\* GuardReturns gone: the call goes on to its uploads.
GuardFallsThrough == StartRun

\* The early return of processMapping's guard.
GuardReturns ==
    /\ error' = MsgBothFiles
    /\ UNCHANGED <<processing, results, run, net>>

\* processMapping called with a file missing.  The Process button is
\* disabled in such a state, so this is a call of the handler itself.
processMappingGuard ==
    /\ page = "/"
    /\ UploadPageRenders
    /\ FileMissing
    /\ GuardReturns
    /\ UNCHANGED <<page, dashVars, chatVars, effect, mappingFile, salesFile, exports, downloads, clicks>>

\* A click on the Process button.
processMapping ==
    /\ page = "/"
    /\ UploadPageRenders
    /\ ~ProcessDisabled
    /\ clicks.process < MaxRuns
    /\ ~FileMissing
    /\ StartRun
    /\ clicks' = [clicks EXCEPT !.process = @ + 1]
    /\ UNCHANGED <<page, dashVars, chatVars, effect, mappingFile, salesFile, exports, downloads>>

\* RunFails that posts the failed request once more.
RunFailsRetries(e) ==
    /\ error' = AfterCatch(e)
    /\ processing' = FALSE
    /\ net' = [net EXCEPT ![run.reqs[Len(run.reqs)].url] = @ + 1]
    /\ UNCHANGED results

\* RunFails that also clears the results of the earlier run.
RunFailsClearsResults(e) ==
    /\ error' = AfterCatch(e)
    /\ processing' = FALSE
    /\ results' = NullStats
    /\ UNCHANGED net

\* RunFails without the finally block.
RunFailsKeepsProcessing(e) ==
    /\ error' = AfterCatch(e)
    /\ UNCHANGED <<processing, results, net>>

\* The catch and finally blocks of processMapping on the thrown value e.
RunFails(e) ==
    /\ error' = AfterCatch(e)
    /\ processing' = FALSE
    /\ UNCHANGED <<results, net>>

\* An upload is fulfilled: the run goes on to its next request.
UploadSucceeds ==
    /\ page = "/"
    /\ InFlight(run)
    /\ Len(run.reqs) \in {1, 2}
    /\ run' = [run EXCEPT !.resps = Append(@, TRUE), !.reqs = Append(@, NextRequest(run))]
    /\ net' = [net EXCEPT ![NextRequest(run).url] = @ + 1]
    /\ UNCHANGED <<page, dashVars, chatVars, effect, mappingFile, salesFile, processing, results, error, exports, downloads, clicks>>

\* An upload is rejected with e.
UploadFails(e) ==
    /\ page = "/"
    /\ InFlight(run)
    /\ Len(run.reqs) \in {1, 2}
    /\ run' = [run EXCEPT !.resps = Append(@, FALSE)]
    /\ RunFails(UploadError(e))
    /\ UNCHANGED <<page, dashVars, chatVars, effect, mappingFile, salesFile, exports, downloads, clicks>>

\* StatsAccepted that also asks for the counters the panel reads.
StatsAcceptedIfWellFormed(r) == r.stats # NullStats /\ "mapping_rate" \in DOMAIN r.stats

\* if (response.data.stats)
StatsAccepted(r) == r.stats # NullStats

\* NewResults that keeps the counters already shown.
NewResultsKeepsOld(r) == IF results # NullStats THEN results ELSE r.stats

\* setResults(response.data.stats)
NewResults(r) == r.stats

\* POST /api/process is fulfilled with r.  Reading stats of null data throws
\* a TypeError inside the try block.
ProcessSucceeds(r) ==
    /\ page = "/"
    /\ InFlight(run)
    /\ Len(run.reqs) = 3
    /\ run' = [run EXCEPT !.resps = Append(@, TRUE)]
    /\ IF r.dataNull
       THEN RunFails(PlainError(MsgStatsOfNull))
       ELSE IF StatsAccepted(r)
       THEN /\ results' = NewResults(r)
            /\ processing' = FALSE
            /\ UNCHANGED <<error, net>>
       ELSE RunFails(PlainError(MsgInvalidFormat))
    /\ UNCHANGED <<page, dashVars, chatVars, effect, mappingFile, salesFile, exports, downloads, clicks>>

\* POST /api/process is rejected with e.
ProcessFails(e) ==
    /\ page = "/"
    /\ InFlight(run)
    /\ Len(run.reqs) = 3
    /\ run' = [run EXCEPT !.resps = Append(@, FALSE)]
    /\ RunFails(e)
    /\ UNCHANGED <<page, dashVars, chatVars, effect, mappingFile, salesFile, exports, downloads, clicks>>

ExportFormats == {"csv", "excel"}

\* exportResults that posts twice.
exportResultsTwice(format) ==
    /\ page = "/"
    /\ ResultsPanel(results).shown
    /\ clicks.export < MaxExports
    /\ exports' = Append(exports, format)
    /\ net' = [net EXCEPT ![EpExport] = @ + 2]
    /\ clicks' = [clicks EXCEPT !.export = @ + 1]
    /\ UNCHANGED <<page, dashVars, chatVars, effect, mappingFile, salesFile, processing, results, error, run, downloads>>

\* A click on one of the export buttons of the results panel, which exist
\* only where the panel rendered.
exportResults(format) ==
    /\ page = "/"
    /\ ResultsPanel(results).shown
    /\ clicks.export < MaxExports
    /\ exports' = Append(exports, format)
    /\ net' = [net EXCEPT ![EpExport] = @ + 1]
    /\ clicks' = [clicks EXCEPT !.export = @ + 1]
    /\ UNCHANGED <<page, dashVars, chatVars, effect, mappingFile, salesFile, processing, results, error, run, downloads>>

Remove(s, i) == SubSeq(s, 1, i - 1) \o SubSeq(s, i + 1, Len(s))

\* `processed_sales.${format}`
DownloadName(format) == "processed_sales." \o format

ExportSucceeds(i) ==
    /\ page = "/"
    /\ i \in 1..Len(exports)
    /\ downloads' = downloads \cup {DownloadName(exports[i])}
    /\ exports' = Remove(exports, i)
    /\ UNCHANGED <<page, dashVars, chatVars, effect, mappingFile, salesFile, processing, results, error, run, net, clicks>>

\* The catch block of an exportResults call; setError on a page that was
\* removed does nothing.
ExportFails(i) ==
    /\ page = "/"
    /\ i \in 1..Len(exports)
    /\ error' = IF UploadPageRenders THEN MsgExportFailed ELSE error
    /\ exports' = Remove(exports, i)
    /\ UNCHANGED <<page, dashVars, chatVars, effect, mappingFile, salesFile, processing, results, run, downloads, net, clicks>>

(***************************************************************************)
(* JSON.parse, as far as the render needs it: whether a text parses.  Each *)
(* operator takes a text and a position and gives the position after the  *)
(* construct it read there, or 0 when there is none.                       *)
(***************************************************************************)
JsonSpace == {" ", "\t", "\n", "\r"}

\* The control characters (U+0001 to U+001F), which a JSON string may not
\* hold unescaped; all but tab, line feed, form feed and carriage return
\* are written as the characters themselves.
ControlChars == "\t\n\f\r"

CharAt(s, i) == IF i >= 1 /\ i <= Len(s) THEN SubSeq(s, i, i) ELSE ""

InText(c, t) == c # "" /\ \E j \in 1..Len(t) : SubSeq(t, j, j) = c

RECURSIVE SkipSpace(_, _)
SkipSpace(s, i) == IF CharAt(s, i) \in JsonSpace THEN SkipSpace(s, i + 1) ELSE i

\* The position after the digits at i (i itself when there are none).
RECURSIVE JsonDigits(_, _)
JsonDigits(s, i) == IF InText(CharAt(s, i), "0123456789") THEN JsonDigits(s, i + 1) ELSE i

JsonNumber(s, i) ==
    LET a == IF CharAt(s, i) = "-" THEN i + 1 ELSE i
        b == IF CharAt(s, a) = "0" THEN a + 1
             ELSE IF InText(CharAt(s, a), "123456789") THEN JsonDigits(s, a)
             ELSE 0
        c == IF b = 0 THEN 0
             ELSE IF CharAt(s, b) # "." THEN b
             ELSE IF JsonDigits(s, b + 1) > b + 1 THEN JsonDigits(s, b + 1)
             ELSE 0
        g == IF CharAt(s, c + 1) \in {"+", "-"} THEN c + 2 ELSE c + 1
    IN IF c = 0 THEN 0
       ELSE IF CharAt(s, c) \notin {"e", "E"} THEN c
       ELSE IF JsonDigits(s, g) > g THEN JsonDigits(s, g)
       ELSE 0

\* The rest of a string, i being after its opening quote.
RECURSIVE JsonChars(_, _)
JsonChars(s, i) ==
    LET c == CharAt(s, i)
    IN IF c = "" THEN 0
       ELSE IF c = "\"" THEN i + 1
       ELSE IF c = "\\"
       THEN IF InText(CharAt(s, i + 1), "\"\\/bfnrt") THEN JsonChars(s, i + 2)
            ELSE IF CharAt(s, i + 1) = "u"
                    /\ \A k \in 2..5 : InText(CharAt(s, i + k), "0123456789abcdefABCDEF")
            THEN JsonChars(s, i + 6)
            ELSE 0
       ELSE IF InText(c, ControlChars) THEN 0
       ELSE JsonChars(s, i + 1)

JsonString(s, i) == IF CharAt(s, i) = "\"" THEN JsonChars(s, i + 1) ELSE 0

JsonLiteral(s, i, w) ==
    IF i >= 1 /\ i + Len(w) - 1 <= Len(s) /\ SubSeq(s, i, i + Len(w) - 1) = w THEN i + Len(w) ELSE 0

RECURSIVE JsonValue(_, _)
RECURSIVE JsonElements(_, _)
RECURSIVE JsonMembers(_, _)
\* A value at i.
JsonValue(s, i) ==
    LET c == CharAt(s, i)
        j == SkipSpace(s, i + 1)
    IN IF c = "{" THEN (IF CharAt(s, j) = "}" THEN j + 1 ELSE JsonMembers(s, j))
       ELSE IF c = "[" THEN (IF CharAt(s, j) = "]" THEN j + 1 ELSE JsonElements(s, j))
       ELSE IF c = "\"" THEN JsonString(s, i)
       ELSE IF c = "t" THEN JsonLiteral(s, i, "true")
       ELSE IF c = "f" THEN JsonLiteral(s, i, "false")
       ELSE IF c = "n" THEN JsonLiteral(s, i, "null")
       ELSE JsonNumber(s, i)

\* The elements of an array from the one at i, up to the closing bracket.
JsonElements(s, i) ==
    LET v == JsonValue(s, i)
        j == SkipSpace(s, v)
    IN IF v = 0 THEN 0
       ELSE IF CharAt(s, j) = "," THEN JsonElements(s, SkipSpace(s, j + 1))
       ELSE IF CharAt(s, j) = "]" THEN j + 1
       ELSE 0

\* The members of an object from the one at i, up to the closing brace.
JsonMembers(s, i) ==
    LET k == JsonString(s, i)
        c == SkipSpace(s, k)
        v == JsonValue(s, SkipSpace(s, c + 1))
        j == SkipSpace(s, v)
    IN IF k = 0 \/ CharAt(s, c) # ":" \/ v = 0 THEN 0
       ELSE IF CharAt(s, j) = "," THEN JsonMembers(s, SkipSpace(s, j + 1))
       ELSE IF CharAt(s, j) = "}" THEN j + 1
       ELSE 0

\* JSON.parse(text) returns (it throws a SyntaxError otherwise).
JsonParses(text) ==
    LET v == JsonValue(text, SkipSpace(text, 1))
    IN v # 0 /\ SkipSpace(text, v) = Len(text) + 1

\* JSON.parse(text) returns null.
JsonIsNull(text) == JsonParses(text) /\ JsonLiteral(text, SkipSpace(text, 1), "null") # 0

(***************************************************************************)
(* DashboardPage.                                                           *)
(***************************************************************************)
MsgAnalyticsFailed == "Failed to load analytics data"

NullAnalytics == [null |-> TRUE]

\* response.data of GET /api/analytics: empty, the metrics object, or data
\* without one.
AnalyticsResponses ==
    { NullAnalytics,
      [analytics |-> [total_orders |-> 48, unique_products |-> 3, mapping_rate |-> 10000, unmapped_count |-> 0,
                      top_products |-> [MSKU001 |-> 30, MSKU002 |-> 18]]],
      [analytics |-> [total_orders |-> 10, unique_products |-> 4, mapping_rate |-> 8525, unmapped_count |-> 25,
                      top_products |-> [MSKU001 |-> 10]]],
      [analytics |-> [total_orders |-> 48, unique_products |-> 3, mapping_rate |-> 10000, unmapped_count |-> 0]],
      [analytics |-> [total_orders |-> 48, unique_products |-> 3, mapping_rate |-> 10000, unmapped_count |-> 0,
                      top_products |-> [MSKU001 |-> 30, MSKU002 |-> 18]],
       charts |-> [top_products |-> "{\"data\": [{\"x\": [\"MSKU001\"], \"y\": [30], \"type\": \"bar\"}], \"layout\": {\"title\": \"Top\"}}",
                   mapping_status |-> ""]],
      [analytics |-> [total_orders |-> 48, unique_products |-> 3, mapping_rate |-> 10000, unmapped_count |-> 0,
                      top_products |-> [MSKU001 |-> 30, MSKU002 |-> 18]],
       charts |-> [top_products |-> "not json"]],
      [message |-> "no data"] }

\* The mount effect: fetchAnalytics up to its await.
fetchAnalytics ==
    /\ page = "/dashboard"
    /\ effect = "pending"
    /\ dashLoading' = TRUE
    /\ net' = [net EXCEPT ![EpAnalytics] = @ + 1]
    /\ effect' = "awaiting"
    /\ UNCHANGED <<page, uploadVars, chatVars, analytics, dashError, clicks>>

AnalyticsSucceeds(data) ==
    /\ page = "/dashboard"
    /\ effect = "awaiting"
    /\ analytics' = data
    /\ dashLoading' = FALSE
    /\ effect' = "done"
    /\ UNCHANGED <<page, uploadVars, chatVars, dashError, net, clicks>>

\* AnalyticsFails without the finally block.
AnalyticsFailsKeepsLoading(e) ==
    /\ page = "/dashboard"
    /\ effect = "awaiting"
    /\ dashError' = MsgAnalyticsFailed
    /\ effect' = "done"
    /\ UNCHANGED <<page, uploadVars, chatVars, analytics, dashLoading, net, clicks>>

AnalyticsFails(e) ==
    /\ page = "/dashboard"
    /\ effect = "awaiting"
    /\ dashError' = MsgAnalyticsFailed
    /\ dashLoading' = FALSE
    /\ effect' = "done"
    /\ UNCHANGED <<page, uploadVars, chatVars, analytics, net, clicks>>

\* charts.top_products && ... JSON.parse(charts.top_products).data: an empty
\* text is skipped; otherwise the text must parse, and to something other
\* than null, whose .data and .layout are then read.
ChartRenders(text) == text = "" \/ (JsonParses(text) /\ ~JsonIsNull(text))

\* The render past the three gates reads metrics.top_products (Object.entries),
\* metrics.total_orders.toLocaleString() and metrics.mapping_rate.toFixed(1):
\* each throws a TypeError when the field, or metrics itself, is missing.
\* When the data has charts, it parses the chart texts it finds there.
MetricsRender(data) ==
    /\ "analytics" \in DOMAIN data
    /\ {"top_products", "total_orders", "mapping_rate"} \subseteq DOMAIN data.analytics
    /\ "charts" \in DOMAIN data =>
          \A k \in {"top_products", "mapping_status"} \cap DOMAIN data.charts :
              ChartRenders(data.charts[k])

\* Which of the four returns of DashboardPage renders, or that the render threw.
DashboardView ==
    IF dashLoading THEN "spinner"
    ELSE IF ~Falsy(dashError) THEN "error"
    ELSE IF analytics = NullAnalytics THEN "No Data Available"
    ELSE IF MetricsRender(analytics) THEN "metrics"
    ELSE "threw"

\* The data of the Mapping Status Distribution pie.
PieData(metrics) ==
    << [name |-> "Mapped", value |-> metrics.total_orders - metrics.unmapped_count],
       [name |-> "Unmapped", value |-> metrics.unmapped_count] >>

(***************************************************************************)
(* AnalyticsPage.                                                           *)
(***************************************************************************)
\* The white space String.prototype.trim removes, as far as a string of the
\* model can hold it: space, tab, line feed, vertical tab (written as the
\* character itself), form feed, carriage return.  U+00A0, U+FEFF and the
\* Unicode space separators are removed too.
Whitespace == {" ", "\t", "\n", "", "\f", "\r"}

RECURSIVE TrimStart(_)
TrimStart(s) ==
    IF s # "" /\ SubSeq(s, 1, 1) \in Whitespace THEN TrimStart(SubSeq(s, 2, Len(s))) ELSE s

RECURSIVE TrimEnd(_)
TrimEnd(s) ==
    IF s # "" /\ SubSeq(s, Len(s), Len(s)) \in Whitespace THEN TrimEnd(SubSeq(s, 1, Len(s) - 1)) ELSE s

\* String.prototype.trim
Trim(s) == TrimEnd(TrimStart(s))

UpperCase == "ABCDEFGHIJKLMNOPQRSTUVWXYZ"

LowerCase == "abcdefghijklmnopqrstuvwxyz"

LowerChar(c) ==
    IF \E i \in 1..Len(UpperCase) : SubSeq(UpperCase, i, i) = c
    THEN LET i == CHOOSE j \in 1..Len(UpperCase) : SubSeq(UpperCase, j, j) = c
         IN SubSeq(LowerCase, i, i)
    ELSE c

\* String.prototype.toLowerCase
RECURSIVE ToLowerCase(_)
ToLowerCase(s) ==
    IF s = "" THEN "" ELSE LowerChar(SubSeq(s, 1, 1)) \o ToLowerCase(SubSeq(s, 2, Len(s)))

\* String.prototype.includes
Includes(s, sub) == \E i \in 1..(Len(s) - Len(sub) + 1) : SubSeq(s, i, i + Len(sub) - 1) = sub

NullChart == [null |-> TRUE]

ReplyTop == "Based on your sales data, here are the top selling products:\n\n1. MSKU001 - 150 orders\n2. MSKU002 - 120 orders\n3. MSKU003 - 95 orders\n\nThese products represent 60% of your total sales volume."

ReplyMapping == "Your current mapping rate is 85.2%. This means 85.2% of your SKUs have been successfully mapped to MSKUs. The remaining 14.8% (approximately 45 SKUs) need attention. Consider updating your mapping file to improve this rate."

ReplyChart == "I've created a visualization for you. The chart shows the distribution of your sales data. You can see clear patterns in product performance and identify opportunities for optimization."

\* The bullets of the source text are written * here.
ReplyHelp == "I can help you analyze your warehouse data! Try asking me about:\n\n* Top selling products\n* Mapping rates and unmapped SKUs\n* Sales trends and patterns\n* Data quality issues\n* Performance metrics\n\nJust type your question in natural language!"

\* simulateAIResponse that tests for the mapping keywords first and does not
\* lower-case the query.
simulateAIResponseMappingFirst(userQuery) ==
    IF Includes(userQuery, "mapping") \/ Includes(userQuery, "rate")
    THEN [response |-> ReplyMapping,
          chartData |-> [chart_type |-> "pie", title |-> "Mapping Status"]]
    ELSE IF Includes(userQuery, "top") \/ Includes(userQuery, "best") \/ Includes(userQuery, "selling")
    THEN [response |-> ReplyTop,
          chartData |-> [chart_type |-> "bar", title |-> "Top Selling Products"]]
    ELSE IF Includes(userQuery, "chart") \/ Includes(userQuery, "graph") \/ Includes(userQuery, "visualize")
    THEN [response |-> ReplyChart,
          chartData |-> [chart_type |-> "bar", title |-> "Sales Distribution"]]
    ELSE [response |-> ReplyHelp, chartData |-> NullChart]

\* simulateAIResponse after its delay: the reply to userQuery.
simulateAIResponse(userQuery) ==
    LET queryLower == ToLowerCase(userQuery)
    IN IF Includes(queryLower, "top") \/ Includes(queryLower, "best") \/ Includes(queryLower, "selling")
       THEN [response |-> ReplyTop,
             chartData |-> [chart_type |-> "bar", title |-> "Top Selling Products"]]
       ELSE IF Includes(queryLower, "mapping") \/ Includes(queryLower, "rate")
       THEN [response |-> ReplyMapping,
             chartData |-> [chart_type |-> "pie", title |-> "Mapping Status"]]
       ELSE IF Includes(queryLower, "chart") \/ Includes(queryLower, "graph") \/ Includes(queryLower, "visualize")
       THEN [response |-> ReplyChart,
             chartData |-> [chart_type |-> "bar", title |-> "Sales Distribution"]]
       ELSE [response |-> ReplyHelp, chartData |-> NullChart]

\* The delay of simulateAIResponse, in milliseconds.
AIDelay == 1000

SampleQueries ==
    { "Show me top selling products",
      "What's the mapping rate?",
      "Create a chart of sales trends",
      "How many unmapped SKUs?",
      "Analyze data quality" }

\* What the user types into the textarea.
TypedTexts == { "", " \n", "Best RATE graph", "Visualize RATEs" }

NullPreview == [null |-> TRUE]

\* response.data of GET /api/data/preview?type=processed: null, a preview,
\* and bodies that lack total_rows or columns.
PreviewResponses ==
    { NullPreview,
      [total_rows |-> 48, columns |-> <<"SKU", "MSKU", "Quantity">>],
      [columns |-> <<"SKU">>],
      [total_rows |-> 48],
      [message |-> "no data"] }

\* The four initial insights (their texts carry emoji; the count is kept).
InitialInsights == <<"insight 1", "insight 2", "insight 3", "insight 4">>

NoTimer == [set |-> FALSE, userQuery |-> "", delay |-> 0]

\* {dataPreview && ( ... dataPreview.columns.length ... )}: the Data Overview
\* reads the length of columns, which throws a TypeError on a preview
\* without columns.
OverviewThrows(data) == data # NullPreview /\ "columns" \notin DOMAIN data

\* The page is on screen.  A render that throws returns no element and,
\* App having no error boundary, React removes the page: its textarea and
\* buttons are gone and a later setState of a pending call does nothing.
AnalyticsPageRenders == ~OverviewThrows(dataPreview)

\* The mount effect: loadInitialInsights up to its await.
loadInitialInsights ==
    /\ page = "/analytics"
    /\ effect = "pending"
    /\ net' = [net EXCEPT ![EpPreview] = @ + 1]
    /\ effect' = "awaiting"
    /\ UNCHANGED <<page, uploadVars, dashVars, chatVars, clicks>>

PreviewSucceeds(data) ==
    /\ page = "/analytics"
    /\ effect = "awaiting"
    /\ effect' = "done"
    /\ IF data # NullPreview
       THEN dataPreview' = data /\ insights' = InitialInsights
       ELSE UNCHANGED <<dataPreview, insights>>
    /\ UNCHANGED <<page, uploadVars, dashVars, query, conversation, loading, pending, net, clicks>>

\* The catch block only logs.
PreviewFails(e) ==
    /\ page = "/analytics"
    /\ effect = "awaiting"
    /\ effect' = "done"
    /\ UNCHANGED <<page, uploadVars, dashVars, chatVars, net, clicks>>

\* The textarea's onChange; the textarea is disabled while loading.
onChange(text) ==
    /\ page = "/analytics"
    /\ AnalyticsPageRenders
    /\ ~loading
    /\ query' = text
    /\ UNCHANGED <<page, uploadVars, dashVars, conversation, loading, insights, dataPreview, pending, effect, net, clicks>>

\* A click on a Sample Queries button; these are never disabled.
onSampleClick(sampleQuery) ==
    /\ page = "/analytics"
    /\ AnalyticsPageRenders
    /\ query' = sampleQuery
    /\ UNCHANGED <<page, uploadVars, dashVars, conversation, loading, insights, dataPreview, pending, effect, net, clicks>>

\* disabled={!query.trim() || loading}
SendDisabled == Trim(query) = "" \/ loading

\* StartQuery that asks the backend instead of starting the timer.
StartQueryAsksBackend ==
    /\ conversation' = Append(conversation, [type |-> "user", content |-> query])
    /\ loading' = TRUE
    /\ pending' = [set |-> TRUE, userQuery |-> query, delay |-> AIDelay]
    /\ net' = [net EXCEPT ![EpAnalytics] = @ + 1]
    /\ UNCHANGED query

\* sendQuery past its guard, up to the await of the delay timer.
StartQuery ==
    /\ conversation' = Append(conversation, [type |-> "user", content |-> query])
    /\ loading' = TRUE
    /\ pending' = [set |-> TRUE, userQuery |-> query, delay |-> AIDelay]
    /\ UNCHANGED <<query, net>>

\* sendQuery, from the Send button or from Enter in the textarea (both
\* disabled while loading).  With a blank query it returns at once.
sendQuery ==
    /\ page = "/analytics"
    /\ AnalyticsPageRenders
    /\ ~loading
    /\ IF Trim(query) = ""
       THEN UNCHANGED <<query, conversation, loading, pending, net, clicks>>
       ELSE /\ clicks.send < MaxQueries
            /\ StartQuery
            /\ clicks' = [clicks EXCEPT !.send = @ + 1]
    /\ UNCHANGED <<page, uploadVars, dashVars, insights, dataPreview, effect>>

\* The message sendQuery appends once simulateAIResponse resolved.
AiMessage(aiResponse) ==
    [type |-> "ai", content |-> aiResponse.response, chartData |-> aiResponse.chartData]

\* The message sendQuery's catch block appends.
ErrorMessage ==
    [type |-> "error", content |-> "Sorry, I encountered an error processing your query."]

\* Rejects that fails on queries with an upper-case letter.
RejectsUpperCase(userQuery) == userQuery # ToLowerCase(userQuery)

\* simulateAIResponse rejects: userQuery.toLowerCase() throws when userQuery
\* is not a string.  Every value of query is a string, 'null' and
\* 'undefined' as typed included.
Rejects(userQuery) == userQuery \notin STRING

\* The delay timer fires: simulateAIResponse resolves or rejects and
\* sendQuery runs to its end (the reply or the error message, then finally).
\* On a page that was removed its setConversation, setLoading and setQuery
\* do nothing.
TimerFires ==
    /\ page = "/analytics"
    /\ pending.set
    /\ IF AnalyticsPageRenders
       THEN /\ conversation' = Append(conversation,
                                      IF Rejects(pending.userQuery)
                                      THEN ErrorMessage
                                      ELSE AiMessage(simulateAIResponse(pending.userQuery)))
            /\ loading' = FALSE
            /\ query' = ""
       ELSE UNCHANGED <<conversation, loading, query>>
    /\ pending' = NoTimer
    /\ UNCHANGED <<page, uploadVars, dashVars, insights, dataPreview, effect, net, clicks>>

(***************************************************************************)
(* The specification.  One route element is mounted; its useState fields   *)
(* start at their initial values and its mount effect is about to run.     *)
(***************************************************************************)
Init ==
    /\ page \in Pages
    /\ mappingFile = Null
    /\ salesFile = Null
    /\ processing = FALSE
    /\ results = NullStats
    /\ error = Null
    /\ run = NoRun
    /\ exports = <<>>
    /\ downloads = {}
    /\ analytics = NullAnalytics
    /\ dashLoading = TRUE
    /\ dashError = Null
    /\ query = ""
    /\ conversation = <<>>
    /\ loading = FALSE
    /\ insights = <<>>
    /\ dataPreview = NullPreview
    /\ pending = NoTimer
    /\ effect = IF page = "/" THEN "none" ELSE "pending"
    /\ net = [ep \in Endpoints |-> 0]
    /\ clicks = [process |-> 0, export |-> 0, send |-> 0]

Next ==
    \/ \E f \in Files : onMappingDrop(f)
    \/ \E f \in Files : onSalesDrop(f)
    \/ processMappingGuard
    \/ processMapping
    \/ UploadSucceeds
    \/ \E e \in AxiosErrors : UploadFails(e)
    \/ \E r \in ProcessResponses : ProcessSucceeds(r)
    \/ \E e \in AxiosErrors : ProcessFails(e)
    \/ \E format \in ExportFormats : exportResults(format)
    \/ \E i \in 1..MaxExports : ExportSucceeds(i)
    \/ \E i \in 1..MaxExports : ExportFails(i)
    \/ fetchAnalytics
    \/ \E data \in AnalyticsResponses : AnalyticsSucceeds(data)
    \/ \E e \in AxiosErrors : AnalyticsFails(e)
    \/ loadInitialInsights
    \/ \E data \in PreviewResponses : PreviewSucceeds(data)
    \/ \E e \in AxiosErrors : PreviewFails(e)
    \/ \E text \in TypedTexts : onChange(text)
    \/ \E sampleQuery \in SampleQueries : onSampleClick(sampleQuery)
    \/ sendQuery
    \/ TimerFires

Spec == Init /\ [][Next]_vars

\* The request a run awaits is answered: the continuation of processMapping
\* after its await runs.
RunResponse ==
    \/ UploadSucceeds
    \/ \E e \in AxiosErrors : UploadFails(e)
    \/ \E r \in ProcessResponses : ProcessSucceeds(r)
    \/ \E e \in AxiosErrors : ProcessFails(e)

\* Every request a run issues is eventually fulfilled or rejected.
FairSpec == Spec /\ WF_vars(RunResponse)

(***************************************************************************)
(* Properties.                                                              *)
(***************************************************************************)
RunUrls == <<EpMapping, EpSales, EpProcess>>

\* The run has settled: it started and awaits nothing.
Settled(r) == r.reqs # <<>> /\ ~InFlight(r)

\* C1: a run is started only with both files selected; its requests go to
\* /api/upload/mapping, /api/upload/sales, /api/process in this order; a
\* request is issued only once every earlier request of the run has been
\* fulfilled, so /api/process is posted only after both uploads succeeded.
C1_RequestOrder ==
    /\ run.reqs # <<>> => ~Falsy(run.mf) /\ ~Falsy(run.sf)
    /\ Len(run.reqs) <= 3
    /\ \A i \in 1..Len(run.reqs) : run.reqs[i].url = RunUrls[i]
    /\ Len(run.resps) <= Len(run.reqs)
    /\ Len(run.reqs) <= Len(run.resps) + 1
    /\ \A i \in 1..(Len(run.reqs) - 1) : run.resps[i]
    /\ net[EpProcess] <= net[EpSales]
    /\ net[EpSales] <= net[EpMapping]

C1_Witness == Len(run.reqs) = 3 /\ run.resps = <<TRUE, TRUE>> /\ processing

\* C2: no retry.  A run posts to each of its three endpoints at most once
\* and posts nothing after a failed request; over all runs each endpoint got
\* at most one request per Process click; every export click made exactly
\* one POST /api/export; the Dashboard mount made exactly one GET
\* /api/analytics, which no outcome repeats.
C2_NoRetry ==
    /\ \A i, j \in 1..Len(run.reqs) : run.reqs[i].url = run.reqs[j].url => i = j
    /\ \A i \in 1..Len(run.resps) : ~run.resps[i] => i = Len(run.reqs)
    /\ net[EpMapping] = clicks.process
    /\ net[EpSales] <= clicks.process
    /\ net[EpProcess] <= clicks.process
    /\ net[EpExport] = clicks.export
    /\ net[EpAnalytics] = IF page = "/dashboard" /\ effect # "pending" THEN 1 ELSE 0

C2_Witness ==
    /\ clicks.process = 2
    /\ run.resps = <<TRUE, FALSE>>
    /\ ~processing
    /\ clicks.export = 1
    /\ exports = <<>>
    /\ error = MsgExportFailed

\* The user-facing error message the mounted page holds.  AnalyticsPage has
\* no error field.
PageError ==
    CASE page = "/" -> error
      [] page = "/dashboard" -> dashError
      [] page = "/analytics" -> Undefined

\* A step in which a request of the page fails.
RequestFails ==
    \/ \E e \in AxiosErrors : UploadFails(e)
    \/ \E e \in AxiosErrors : ProcessFails(e)
    \/ \E i \in 1..MaxExports : ExportFails(i)
    \/ \E e \in AxiosErrors : AnalyticsFails(e)
    \/ \E e \in AxiosErrors : PreviewFails(e)

\* C3 as stated: after every failed request (upload, process, export,
\* analytics fetch, data-preview fetch) the page that issued it holds a
\* non-empty error message.
C3_EveryFailureSurfaced == [][RequestFails => ~Falsy(PageError')]_vars

\* C3 as amended: a failed upload or analytics fetch leaves a non-empty
\* message in the page's error field; so does a failed export unless a
\* throwing render has removed the page meanwhile, and so does a failed
\* /api/process unless its response carries null data (the catch block
\* itself throws): in both exceptions error stays as it was.  A failed
\* data-preview fetch is caught and only logged: no field of AnalyticsPage
\* changes, and the page has no error field.
C3_FailuresSurfacedExceptPreview ==
    /\ [][(\/ \E e \in AxiosErrors : UploadFails(e)
           \/ \E e \in AxiosErrors : AnalyticsFails(e)) => ~Falsy(PageError')]_vars
    /\ [][\A i \in 1..MaxExports : ExportFails(i) =>
            IF UploadPageRenders THEN ~Falsy(error') ELSE error' = error]_vars
    /\ [][\A e \in AxiosErrors : ProcessFails(e) =>
            IF e.response.present /\ e.response.dataNull
            THEN error' = error
            ELSE ~Falsy(error')]_vars
    /\ [][(\E e \in AxiosErrors : PreviewFails(e)) => UNCHANGED chatVars]_vars
    /\ [](page = "/analytics" => Falsy(PageError) /\ error = Null /\ dashError = Null)

C3_Witness ==
    /\ Settled(run)
    /\ run.resps = <<TRUE, TRUE, FALSE>>
    /\ ~processing
    /\ error = "Server error: 404"

\* Requests caused by user actions (the mount fetches are not).
UserRequests == net[EpMapping] + net[EpSales] + net[EpProcess] + net[EpExport]

\* C4 as stated: every Process click, Export click and Send-query action
\* caused exactly one network request.
C4_OneCallPerAction == UserRequests = clicks.process + clicks.export + clicks.send

\* C4 as amended: an Export click causes exactly one request; a Process
\* click causes one to three (mapping upload, then sales upload, then the
\* process trigger); a Send-query action causes none.
C4_CallsPerAction ==
    /\ net[EpExport] = clicks.export
    /\ net[EpMapping] = clicks.process
    /\ net[EpProcess] <= net[EpSales]
    /\ net[EpSales] <= net[EpMapping]
    /\ page = "/analytics" => UserRequests = 0 /\ net[EpAnalytics] = 0 /\ net[EpPreview] <= 1

C4_Witness ==
    /\ clicks.process = 1
    /\ net[EpMapping] + net[EpSales] + net[EpProcess] = 3
    /\ clicks.export = 1
    /\ net[EpExport] = 1

\* C5 as stated: a fulfilled /api/process never makes the run set an error;
\* whatever the response holds is taken as results.
C5_NoValidation ==
    [][\A r \in ProcessResponses : ProcessSucceeds(r) => error' = error]_vars

\* C5 as amended: the one check is that the response carries stats.  With
\* stats, of any shape, results becomes stats and no error is set; without
\* (or with null data) results is kept and the run ends with the error
\* 'Invalid response format from server' (or the TypeError's message).
C5_OnlyStatsPresenceChecked ==
    [][\A r \in ProcessResponses : ProcessSucceeds(r) =>
          IF ~r.dataNull /\ r.stats # NullStats
          THEN results' = r.stats /\ error' = error
          ELSE /\ results' = results
               /\ error' = IF r.dataNull THEN MsgStatsOfNull ELSE MsgInvalidFormat]_vars

C5_Witness ==
    /\ Settled(run)
    /\ run.resps = <<TRUE, TRUE, TRUE>>
    /\ results = [total_records |-> 7]
    /\ error = Null

\* C6: when /api/process is fulfilled with stats, results becomes exactly
\* that stats object, and the panel shows its counters, not an earlier run's.
C6_ResultsAreThisRunsStats ==
    [][\A r \in ProcessResponses : ProcessSucceeds(r) /\ ~r.dataNull /\ r.stats # NullStats =>
          /\ results' = r.stats
          /\ ResultsPanel(results') = ResultsPanel(r.stats)
          /\ ResultsPanel(r.stats).shown =>
                /\ ResultsPanel(results').total = r.stats.total_records
                /\ ResultsPanel(results').mapped = r.stats.mapped_records
                /\ ResultsPanel(results').unmappedWarning = r.stats.unmapped_count]_vars

C6_Witness ==
    /\ Settled(run)
    /\ run.resps = <<TRUE, TRUE, TRUE>>
    /\ run.prev # NullStats
    /\ results # run.prev
    /\ ResultsPanel(results).shown
    /\ ResultsPanel(results).rate = "85.3%"

\* A step of a run that does not end it with new results.
FailingRunStep ==
    \/ processMapping
    \/ processMappingGuard
    \/ UploadSucceeds
    \/ \E e \in AxiosErrors : UploadFails(e)
    \/ \E e \in AxiosErrors : ProcessFails(e)
    \/ \E r \in ProcessResponses : ProcessSucceeds(r) /\ (r.dataNull \/ r.stats = NullStats)

\* C7: the steps of a failed run change only error and processing among
\* the fields of the page (results and the file slots stay); results, once
\* set, is never null again.
C7_FailedRunKeepsResults ==
    /\ [][FailingRunStep => UNCHANGED <<results, mappingFile, salesFile, exports, downloads>>]_vars
    /\ [][results # NullStats => results' # NullStats]_vars
    /\ [](Settled(run) /\ (FALSE \in {run.resps[i] : i \in 1..Len(run.resps)}) => results = run.prev)

C7_Witness ==
    /\ Settled(run)
    /\ run.resps = <<TRUE, FALSE>>
    /\ run.prev # NullStats
    /\ results = run.prev
    /\ ResultsPanel(results).shown
    /\ error = MsgUploadFailed

\* C8: processMapping called with a file missing sets the both-files
\* message and changes nothing else: no request, processing and results as
\* they were; and no run ever starts without both files.
C8_GuardPostsNothing ==
    /\ [][processMappingGuard =>
            /\ FileMissing
            /\ error' = MsgBothFiles
            /\ UNCHANGED <<net, processing, results, run, mappingFile, salesFile>>]_vars
    /\ [][net' # net /\ page = "/" /\ run' # run /\ run'.reqs # <<>> =>
            ~Falsy(run'.mf) /\ ~Falsy(run'.sf)]_vars
    /\ [][processMapping => ~FileMissing]_vars

C8_Witness ==
    /\ error = MsgBothFiles
    /\ ~Falsy(mappingFile)
    /\ Falsy(salesFile)
    /\ ~processing
    /\ \A ep \in Endpoints : net[ep] = 0

\* A file drop.
Drop ==
    \/ \E f \in Files : onMappingDrop(f)
    \/ \E f \in Files : onSalesDrop(f)

\* The step that ends a run.
RunSettles ==
    \/ \E e \in AxiosErrors : UploadFails(e)
    \/ \E e \in AxiosErrors : ProcessFails(e)
    \/ \E r \in ProcessResponses : ProcessSucceeds(r)

\* C9: no cancellation.  A drop during a run leaves the run, processing,
\* results and the requests made as they are; every upload of a run carries
\* the file that was selected when the run started, whatever is selected
\* now; and the run goes on to settle: only a response ends it, that step
\* sets processing false and writes results (stats received) or error (what
\* the catch block makes of the failure), whatever is selected by then.
C9_NoCancellation ==
    /\ [][Drop => UNCHANGED <<run, processing, results, net>>]_vars
    /\ [][processMapping => run'.mf = mappingFile /\ run'.sf = salesFile]_vars
    /\ [](\A i \in 1..Len(run.reqs) :
            run.reqs[i].file = <<run.mf, run.sf, Null>>[i])
    /\ [][(run'.mf = run.mf /\ run'.sf = run.sf) \/ processMapping]_vars
    /\ [][InFlight(run) /\ ~InFlight(run') => RunSettles /\ ~processing']_vars
    /\ [][\A r \in ProcessResponses : ProcessSucceeds(r) /\ ~r.dataNull /\ r.stats # NullStats =>
            results' = r.stats]_vars
    /\ [][\A e \in AxiosErrors :
            /\ UploadFails(e) => error' = OrElse(e.response.error, MsgUploadFailed)
            /\ ProcessFails(e) => error' = AfterCatch(e)]_vars
    /\ [](InFlight(run) => processing)

C9_Witness ==
    /\ Settled(run)
    /\ run.resps = <<TRUE, TRUE, TRUE>>
    /\ run.reqs[2].file = "skus.csv"
    /\ salesFile = "orders.json"
    /\ run.mf # mappingFile
    /\ results # run.prev

Last(s) == s[Len(s)]

\* C10: sendQuery hands nothing to axios; a reply is appended only in the
\* step in which the delay timer fires; the timer's delay is always the
\* fixed 1000 ms; and while the last message is the user's (its reply not
\* yet appended) loading is true, a running timer is that query's, and on a
\* page that is on screen the timer is running.
C10_LocalDelayedReply ==
    /\ [][sendQuery => net' = net]_vars
    /\ [](page = "/analytics" => UserRequests = 0 /\ net[EpAnalytics] = 0)
    /\ [][conversation' # conversation /\ Last(conversation').type # "user" =>
            pending.set /\ ~pending'.set /\ TimerFires]_vars
    /\ [](pending.set => pending.delay = AIDelay)
    /\ [](conversation # <<>> /\ Last(conversation).type = "user" =>
            /\ loading
            /\ pending.set => pending.userQuery = Last(conversation).content
            /\ AnalyticsPageRenders => pending.set)

C10_Witness ==
    /\ Len(conversation) = 3
    /\ conversation[2].type = "ai"
    /\ conversation[3].type = "user"
    /\ loading
    /\ pending.set

\* The keyword groups of the classifier, in the order they are tested, and
\* the reply text and chart of each; the fourth entry is the help reply.
KeywordGroups == << {"top", "best", "selling"}, {"mapping", "rate"}, {"chart", "graph", "visualize"} >>

GroupReplies == <<ReplyTop, ReplyMapping, ReplyChart, ReplyHelp>>

GroupCharts == <<"bar", "pie", "bar", "none">>

Hits(text, g) == \E k \in KeywordGroups[g] : Includes(text, k)

\* The first group with a keyword in text; 4 when there is none.
GroupOf(text) ==
    IF \E g \in 1..3 : Hits(text, g)
    THEN CHOOSE g \in 1..3 : Hits(text, g) /\ \A h \in 1..(g - 1) : ~Hits(text, h)
    ELSE 4

ChartType(m) == IF m.chartData = NullChart THEN "none" ELSE m.chartData.chart_type

\* C11: every reply in the conversation is the one the keyword classifier
\* assigns to the lower-cased text of the user message before it, and to
\* nothing else: the first of the groups top/best/selling (bar chart),
\* mapping/rate (pie chart), chart/graph/visualize (bar chart) with a keyword
\* in the text decides, the help reply is given when there is none, and
\* chartData is null exactly for the help reply.
C11_KeywordClassifier ==
    \A i \in 2..Len(conversation) :
        conversation[i].type # "user" =>
            LET g == GroupOf(ToLowerCase(conversation[i - 1].content))
            IN /\ conversation[i - 1].type = "user"
               /\ conversation[i].type = "ai"
               /\ conversation[i].content = GroupReplies[g]
               /\ ChartType(conversation[i]) = GroupCharts[g]
               /\ (conversation[i].chartData = NullChart) <=> (conversation[i].content = ReplyHelp)

C11_Witness ==
    /\ Len(conversation) = 4
    /\ conversation[1].content = "Best RATE graph"
    /\ conversation[2].content = ReplyTop
    /\ conversation[3].content = "Visualize RATEs"
    /\ conversation[4].content = ReplyMapping
    /\ conversation[4].chartData.chart_type = "pie"
    /\ dataPreview # NullPreview

\* C12: every request goes to one of the six endpoints, and the files go
\* where they belong: in every run the request to /api/upload/mapping
\* carries the mapping file the run was started with, the request to
\* /api/upload/sales carries its sales file, and no other request of the
\* run carries a file; every step that issues a request issues exactly one,
\* to one of the six endpoints, and each page calls only its own endpoints.
C12_EndpointsAndRouting ==
    /\ [](\A i \in 1..Len(run.reqs) :
            /\ run.reqs[i].url \in Endpoints
            /\ run.reqs[i].url = EpMapping => run.reqs[i].file = run.mf
            /\ run.reqs[i].url = EpSales => run.reqs[i].file = run.sf
            /\ run.reqs[i].url \notin {EpMapping, EpSales} => run.reqs[i].file = Null)
    /\ [](run.reqs # <<>> => run.reqs[1] = Request(EpMapping, run.mf))
    /\ [](Len(run.reqs) >= 2 => run.reqs[2] = Request(EpSales, run.sf))
    /\ [][run'.reqs # run.reqs =>
            \E ep \in {EpMapping, EpSales, EpProcess} :
                /\ net' = [net EXCEPT ![ep] = @ + 1]
                /\ run'.reqs[Len(run'.reqs)].url = ep]_vars
    /\ [][net' # net => \E ep \in Endpoints : net' = [net EXCEPT ![ep] = @ + 1]]_vars
    /\ [](page = "/" => net[EpAnalytics] = 0 /\ net[EpPreview] = 0)
    /\ [](page = "/dashboard" => \A ep \in Endpoints \ {EpAnalytics} : net[ep] = 0)
    /\ [](page = "/analytics" => \A ep \in Endpoints \ {EpPreview} : net[ep] = 0)

C12_Witness ==
    /\ Len(run.reqs) = 3
    /\ run.reqs[1] = Request(EpMapping, "skus.xlsx")
    /\ run.reqs[2] = Request(EpSales, "orders.json")
    /\ mappingFile = "skus.csv"
    /\ salesFile = "skus.xlsx"
    /\ net[EpExport] = 1

\* C13 as stated: whenever the metrics view is rendered, the two slices of
\* the mapping-status pie are Mapped = total_orders - unmapped_count and
\* Unmapped = unmapped_count, they sum to total_orders, and neither is
\* negative.
C13_PieSlices ==
    DashboardView = "metrics" =>
        LET metrics == analytics.analytics
            pie == PieData(metrics)
        IN /\ pie[1].name = "Mapped" /\ pie[2].name = "Unmapped"
           /\ pie[2].value = metrics.unmapped_count
           /\ pie[1].value + pie[2].value = metrics.total_orders
           /\ pie[1].value >= 0
           /\ pie[2].value >= 0

\* The metrics view rendered with a negative Mapped slice.
C13_Witness ==
    /\ DashboardView = "metrics"
    /\ analytics.analytics.total_orders = 10
    /\ analytics.analytics.unmapped_count = 25
    /\ PieData(analytics.analytics)[1].value = -15
    /\ PieData(analytics.analytics)[1].value + PieData(analytics.analytics)[2].value = 10

\* C14 as stated: the error a failed run sets.  A failed upload, whatever
\* the cause, sets the backend's error field if it has one and 'Upload
\* failed' otherwise; a rejected /api/process with a response sets the
\* backend's error field or 'Server error: <status>', and without a
\* response the network-error message; a fulfilled /api/process without
\* stats sets 'Invalid response format from server'; so an upload never
\* sets the network-error message.
C14_ErrorStrings ==
    /\ [][\A e \in AxiosErrors : UploadFails(e) =>
            /\ error' = OrElse(e.response.error, MsgUploadFailed)
            /\ error' # MsgNetwork]_vars
    /\ [][\A e \in AxiosErrors : ProcessFails(e) =>
            error' = IF e.response.present
                     THEN OrElse(e.response.error, "Server error: " \o ToString(e.response.status))
                     ELSE MsgNetwork]_vars
    /\ [][\A r \in ProcessResponses : ProcessSucceeds(r) /\ ~r.dataNull /\ r.stats = NullStats =>
            error' = MsgInvalidFormat]_vars

\* A run whose /api/process was rejected has settled, and the page shows no
\* error: the files are the ones the run was started with.
C14_Witness ==
    /\ Settled(run)
    /\ run.resps = <<TRUE, TRUE, FALSE>>
    /\ ~processing
    /\ error = Null
    /\ mappingFile = run.mf
    /\ salesFile = run.sf
    /\ clicks.export = 0

\* C15: on the Dashboard loading is true from mount until the one GET
\* /api/analytics settles and false from then on; the settling step sets
\* either analytics (success) or error to 'Failed to load analytics data'
\* (failure), never both, so with loading false at most one of them is
\* non-null; the metrics view renders only when loading is false, error is
\* null and analytics is non-null (in such a state the render gives the
\* metrics view or throws), and a success with empty data renders 'No Data
\* Available'.
C15_DashboardLifecycle ==
    /\ [](page = "/dashboard" => (dashLoading <=> effect # "done"))
    /\ [](page = "/dashboard" => net[EpAnalytics] = IF effect = "pending" THEN 0 ELSE 1)
    /\ [][~dashLoading => ~dashLoading' /\ UNCHANGED <<analytics, dashError, net>>]_vars
    /\ [](dashLoading => analytics = NullAnalytics /\ dashError = Null)
    /\ [](~dashLoading => analytics = NullAnalytics \/ dashError = Null)
    /\ [][\A data \in AnalyticsResponses : AnalyticsSucceeds(data) =>
            analytics' = data /\ dashError' = Null /\ ~dashLoading']_vars
    /\ [][\A e \in AxiosErrors : AnalyticsFails(e) =>
            dashError' = MsgAnalyticsFailed /\ analytics' = NullAnalytics /\ ~dashLoading']_vars
    /\ [](DashboardView = "metrics" =>
            ~dashLoading /\ dashError = Null /\ analytics # NullAnalytics)
    /\ [](~dashLoading /\ dashError = Null /\ analytics # NullAnalytics =>
            DashboardView \in {"metrics", "threw"})
    /\ [](~dashLoading /\ dashError = Null /\ analytics = NullAnalytics =>
            DashboardView = "No Data Available")
    /\ [](dashError # Null => dashError = MsgAnalyticsFailed /\ DashboardView = "error")

C15_Witness ==
    /\ page = "/dashboard"
    /\ effect = "done"
    /\ ~dashLoading
    /\ dashError = MsgAnalyticsFailed
    /\ analytics = NullAnalytics
    /\ DashboardView = "error"
    /\ net[EpAnalytics] = 1

\* C16: at most one run is in flight.  While a run awaits a response
\* processing is true and the Process button is disabled; a click starts a
\* run only when no run awaits a response; and the requests recorded for a
\* run change only by the next request of that same run being appended or,
\* once it has settled, by a new run starting with its own first request.
C16_OneRunInFlight ==
    /\ [](InFlight(run) => processing /\ ProcessDisabled)
    /\ [][processMapping =>
            /\ ~processing
            /\ ~InFlight(run)
            /\ InFlight(run')
            /\ run'.reqs = <<Request(EpMapping, mappingFile)>>
            /\ run'.resps = <<>>]_vars
    /\ [][run'.reqs # run.reqs =>
            \/ /\ InFlight(run)
               /\ Len(run'.reqs) = Len(run.reqs) + 1
               /\ SubSeq(run'.reqs, 1, Len(run.reqs)) = run.reqs
               /\ run'.resps = Append(run.resps, TRUE)
            \/ /\ ~InFlight(run)
               /\ processMapping]_vars
    /\ [][run'.resps # run.resps /\ run'.reqs = run.reqs =>
            \/ InFlight(run) /\ ~InFlight(run') /\ Len(run'.resps) = Len(run.resps) + 1
            \/ ~InFlight(run) /\ processMapping]_vars

C16_Witness ==
    /\ clicks.process = 2
    /\ run.prev # NullStats
    /\ InFlight(run)
    /\ Len(run.reqs) = 2
    /\ processing
    /\ ~FileMissing
    /\ ProcessDisabled

\* C17: a click that passes the guard sets processing true and error null in
\* the step that issues the run's first request; processing is true exactly
\* while the run awaits a response; the step that settles the run sets
\* processing false whatever the outcome; and, every request being answered
\* eventually, a run that has started eventually has processing false again.
C17_ProcessingResets ==
    /\ [][processMapping =>
            /\ ~FileMissing
            /\ processing'
            /\ error' = Null
            /\ run'.reqs = <<Request(EpMapping, mappingFile)>>
            /\ net'[EpMapping] = net[EpMapping] + 1]_vars
    /\ [](processing <=> InFlight(run))
    /\ [][InFlight(run) /\ ~InFlight(run') => RunSettles /\ ~processing']_vars
    /\ [][processing /\ ~processing' => RunSettles]_vars
    /\ (processing ~> ~processing)
    /\ (InFlight(run) ~> Settled(run) /\ ~processing)

C17_Witness ==
    /\ Settled(run)
    /\ run.resps = <<TRUE, TRUE, TRUE>>
    /\ results = run.prev
    /\ error = MsgInvalidFormat
    /\ ~processing
    /\ clicks.process = 2

\* C18 as stated: the conversation is append-only and alternates.  Every
\* step leaves the messages it had in place and appends at most one;
\* messages at odd positions are the user's and the one after each is the
\* reply to that very query; a sendQuery with a non-blank query appends
\* exactly the user message with the query as typed; when the timer of that
\* query fires its reply is appended and loading ends; while a reply is
\* pending the Send button is disabled and no user message is appended; a
\* sendQuery with a blank query changes nothing.
C18_AppendOnlyAlternating ==
    /\ [][/\ Len(conversation') \in {Len(conversation), Len(conversation) + 1}
          /\ SubSeq(conversation', 1, Len(conversation)) = conversation]_vars
    /\ [](\A i \in 1..Len(conversation) :
            IF i % 2 = 1
            THEN conversation[i].type = "user"
            ELSE /\ conversation[i].type # "user"
                 /\ conversation[i] = AiMessage(simulateAIResponse(conversation[i - 1].content)))
    /\ [][sendQuery /\ Trim(query) # "" =>
            /\ conversation' = Append(conversation, [type |-> "user", content |-> query])
            /\ loading'
            /\ pending'.userQuery = query]_vars
    /\ [][sendQuery /\ Trim(query) = "" => UNCHANGED vars]_vars
    /\ [](loading => SendDisabled /\ Len(conversation) % 2 = 1)
    /\ [](~loading => ~pending.set /\ Len(conversation) % 2 = 0)
    /\ [][loading /\ conversation' # conversation =>
            /\ TimerFires
            /\ conversation' = Append(conversation, AiMessage(simulateAIResponse(Last(conversation).content)))
            /\ ~loading']_vars
    /\ [](page = "/analytics" => Len(conversation) = 2 * clicks.send - (IF loading THEN 1 ELSE 0))
    /\ [][TimerFires =>
            /\ conversation' = Append(conversation, AiMessage(simulateAIResponse(pending.userQuery)))
            /\ ~loading']_vars

\* The timer of a query has fired on a page that a throwing render had
\* removed: the user message stays without its reply.
C18_Witness ==
    /\ ~AnalyticsPageRenders
    /\ dataPreview = [total_rows |-> 48]
    /\ conversation = <<[type |-> "user", content |-> "How many unmapped SKUs?"]>>
    /\ loading
    /\ ~pending.set

\* C19 as stated: text the user put into the input box leaves it only by
\* the user editing it (typing, or choosing a sample query) or by having
\* been sent: the step that completes sendQuery clears the box only of the
\* query that call sent.
C19_QueryNeverDiscarded ==
    [][query' # query =>
          \/ \E text \in TypedTexts : onChange(text)
          \/ \E sampleQuery \in SampleQueries : onSampleClick(sampleQuery)
          \/ TimerFires /\ query = pending.userQuery]_vars

\* A sample query chosen while the reply to another query is pending.
C19_Witness ==
    /\ loading
    /\ pending.set
    /\ pending.userQuery = "Show me top selling products"
    /\ query = "What's the mapping rate?"
    /\ Len(conversation) = 1

\* C20: no message of type 'error' is ever in the conversation.  The query
\* a sendQuery call hands to simulateAIResponse is a non-blank string, on
\* which simulateAIResponse does not reject, so the message appended when
\* the timer fires is always of type 'ai' (on a page that was removed the
\* timer appends nothing).
C20_NoErrorMessage ==
    /\ [](\A i \in 1..Len(conversation) : conversation[i].type \in {"user", "ai"})
    /\ [](ErrorMessage \notin {conversation[i] : i \in 1..Len(conversation)})
    /\ [](pending.set => Trim(pending.userQuery) # "" /\ ~Rejects(pending.userQuery))
    /\ [][TimerFires =>
            IF AnalyticsPageRenders
            THEN Len(conversation') = Len(conversation) + 1 /\ Last(conversation').type = "ai"
            ELSE conversation' = conversation]_vars

C20_Witness ==
    /\ Len(conversation) = 4
    /\ conversation[1].content = "Analyze data quality"
    /\ conversation[2].type = "ai"
    /\ conversation[3].content = "Visualize RATEs"
    /\ conversation[4].type = "ai"
    /\ ~loading

\* C21 as stated: a drop changes only its own slot and the error.  A drop
\* on the mapping zone sets error to null, leaves salesFile, results and
\* processing as they are, and sets mappingFile to the first accepted file
\* or, when the type filter accepted none, leaves the file selected before
\* selected; symmetrically for the sales zone.
C21_DropFrame ==
    /\ [][\A f \in Files : onMappingDrop(f) =>
            /\ error' = Null
            /\ UNCHANGED <<salesFile, results, processing>>
            /\ mappingFile' = IF AcceptedFiles(MappingAccept, f) # <<>>
                              THEN AcceptedFiles(MappingAccept, f)[1]
                              ELSE mappingFile]_vars
    /\ [][\A f \in Files : onSalesDrop(f) =>
            /\ error' = Null
            /\ UNCHANGED <<mappingFile, results, processing>>
            /\ salesFile' = IF AcceptedFiles(SalesAccept, f) # <<>>
                            THEN AcceptedFiles(SalesAccept, f)[1]
                            ELSE salesFile]_vars

\* The mapping slot emptied by a rejected drop after a run that used the
\* file selected before.
C21_Witness ==
    /\ mappingFile = Undefined
    /\ Settled(run)
    /\ run.mf = "skus.csv"
    /\ run.resps = <<TRUE, TRUE, TRUE>>
    /\ results # NullStats
    /\ salesFile = run.sf
    /\ error = Null
    /\ ProcessDisabled

====
